---- MODULE Spec2Model ----
(***************************************************************************)
(* A model of streamlit_app.py: the project-management dashboard.  One    *)
(* script run of main() is a chain of steps (load, overview, filter        *)
(* widgets, gantt, filter, the seven chart builders, summary, custom       *)
(* analysis); a widget interaction reruns the script from the top with the *)
(* memoization cache of @st.cache_data kept.                               *)
(*                                                                         *)
(* Cells.  Every cell is a record [k, n, s]:                               *)
(*   k = "null"    an empty CSV field / NaN / NaT                          *)
(*   k = "str"     plain text s                                            *)
(*   k = "numtxt"  text that spells the number n                           *)
(*   k = "booltxt" text that spells a boolean (n = 1 for True)             *)
(*   k = "datetxt" text that spells the instant n                          *)
(*   k = "num", "bool", "date"  the typed values                           *)
(* Instants are counted in half days since 1970-01-01 00:00, so that a     *)
(* difference of two instants need not be a whole number of days.          *)
(***************************************************************************)
EXTENDS Integers, Sequences, FiniteSets, TLC

VARIABLES
    uploaded_file,        \* the CSV the uploader holds: [cols (header), rows (records)]
    pc,                   \* position of the script run in main()
    err,                  \* the exception that stopped the run, or NoErr
    df,                   \* main's df (load_and_process_data's result)
    selected_assignees,   \* value of the "Filter by Assignee" multiselect
    selected_projects,    \* value of the "Filter by Project" multiselect
    selected_statuses,    \* value of the "Filter by Deliverable Status" multiselect
    gantt_df,             \* the batch create_interactive_gantt plots
    filtered_df,          \* main's filtered_df
    filter_out,           \* filtered_df exactly as the filter produced it
    overview,             \* the five metrics of the Project Overview
    status_counts,        \* create_task_status_distribution's value counts
    workload,             \* create_workload_by_assignee's group sums
    completion_trend,     \* create_task_completion_trend's weekly counts
    delay_by_project,     \* create_delay_analysis's group means
    billable_hours,       \* create_billable_hours_chart's group sums
    job_category_counts,  \* create_job_category_distribution's value counts
    summary,              \* the figures the Project Summary writes
    custom_columns,       \* the columns the Custom Analysis x-axis box offers
    rendered,             \* the filter widgets hold a value in the session
    cache,                \* keys memoized by @st.cache_data
    reruns                \* script reruns so far in this session

vars == <<uploaded_file, pc, err, df, selected_assignees, selected_projects,
          selected_statuses, gantt_df, filtered_df, filter_out, overview,
          status_counts, workload, completion_trend, delay_by_project,
          billable_hours, job_category_counts, summary, custom_columns,
          rendered, cache, reruns>>

(***************************************************************************)
(* Bounds of the model.                                                    *)
(***************************************************************************)
MaxRows == 2
MaxReruns == 1

(***************************************************************************)
(* Cells and small helpers.                                                *)
(***************************************************************************)
Null == [k |-> "null", n |-> 0, s |-> ""]
Str(x) == [k |-> "str", n |-> 0, s |-> x]
Num(i) == [k |-> "num", n |-> i, s |-> ""]
Bool(b) == [k |-> "bool", n |-> IF b THEN 1 ELSE 0, s |-> ""]
Date(t) == [k |-> "date", n |-> t, s |-> ""]
NumTxt(i) == [k |-> "numtxt", n |-> i, s |-> ""]
BoolTxt(b) == [k |-> "booltxt", n |-> IF b THEN 1 ELSE 0, s |-> ""]
DateTxt(t) == [k |-> "datetxt", n |-> t, s |-> ""]

IsNull(c) == c.k = "null"

Range(q) == {q[i] : i \in 1..Len(q)}

Without(q, x) == SelectSeq(q, LAMBDA y: y # x)

RECURSIVE SumSeq(_)
SumSeq(q) == IF q = <<>> THEN 0 ELSE Head(q) + SumSeq(Tail(q))

RECURSIVE SeqOf(_)
\* some enumeration of a finite set as a sequence
SeqOf(S) == IF S = {} THEN <<>>
            ELSE LET x == CHOOSE y \in S : TRUE IN <<x>> \o SeqOf(S \ {x})

HalfDaysPerDay == 2
DaysPerWeek == 7
\* 1970-01-01 was a Thursday: three days after the Monday that starts its week
EpochWeekday == 3

(***************************************************************************)
(* Program constants.                                                      *)
(***************************************************************************)
DATE_COLUMNS == <<"Start Date", "Due Date", "Created At", "Completed At", "Last Modified">>
NUMERIC_COLUMNS == <<"Estimated Hours", "Total Hours Estimate", "Number of Delays", "Harvest Hours">>

NoErr == [kind |-> "none", what |-> "", at |-> ""]
Raise(kind, what) == [kind |-> kind, what |-> what, at |-> ""]
KeyError(col) == Raise("KeyError", col)

NoDF == [cols |-> <<>>, rows |-> <<>>]

(***************************************************************************)
(* DataFrame operations.                                                   *)
(***************************************************************************)
HasCol(d, c) == c \in Range(d.cols)

\* d[c] = vals, one value per row: an existing column keeps its place, a new
\* one is appended
SetCol(d, c, vals) ==
    [cols |-> IF HasCol(d, c) THEN d.cols ELSE Append(d.cols, c),
     rows |-> [i \in 1..Len(d.rows) |->
                 IF HasCol(d, c) THEN [d.rows[i] EXCEPT ![c] = vals[i]]
                 ELSE d.rows[i] @@ (c :> vals[i])]]

\* the rows whose entry in the boolean mask is true, in order
RECURSIVE Masked(_, _)
Masked(rows, mask) ==
    IF rows = <<>> THEN <<>>
    ELSE (IF Head(mask) THEN <<Head(rows)>> ELSE <<>>) \o Masked(Tail(rows), Tail(mask))

\* d[mask]: the same columns, the rows the mask keeps
Select(d, mask) == [cols |-> d.cols, rows |-> Masked(d.rows, mask)]

\* the index of d's rows
Index(d) == 1..Len(d.rows)

Column(d, c) == [i \in 1..Len(d.rows) |-> d.rows[i][c]]

\* pd.read_csv: a column whose non-empty fields all spell numbers is numeric,
\* one whose non-empty fields all spell booleans holds booleans, any other
\* column keeps its text
InferCell(col, c) ==
    LET filled == {x \in Range(col) : ~IsNull(x)}
    IN  IF IsNull(c) THEN Null
        ELSE IF \A x \in filled : x.k = "numtxt" THEN Num(c.n)
        ELSE IF \A x \in filled : x.k = "booltxt" THEN Bool(c.n = 1)
        ELSE c

read_csv(file) ==
    [cols |-> file.cols,
     rows |-> [i \in 1..Len(file.rows) |->
                 [c \in Range(file.cols) |-> InferCell(Column(file, c), file.rows[i][c])]]]

\* pd.to_datetime(errors='coerce') on one value
to_datetime(c) ==
    CASE c.k = "datetxt" -> Date(c.n)
      [] c.k = "date" -> c
      [] c.k = "num" -> Date(0)     \* a number counts nanoseconds from the epoch
      [] OTHER -> Null

\* pd.to_numeric(errors='coerce') on one value
to_numeric(c) ==
    CASE c.k = "numtxt" -> Num(c.n)
      [] c.k = "num" -> c
      [] OTHER -> Null

fillna(c, v) == IF IsNull(c) THEN v ELSE c

\* (due - start).dt.days: the whole days of a time difference, rounded down;
\* NaT when either instant is NaT
MutDaysClamped(due, start) ==
    IF IsNull(due) \/ IsNull(start) THEN Null
    ELSE IF due.n < start.n THEN Num(0)
    ELSE Num((due.n - start.n) \div HalfDaysPerDay)

Days(due, start) ==
    IF IsNull(due) \/ IsNull(start) THEN Null
    ELSE Num((due.n - start.n) \div HalfDaysPerDay)

\* the truth of `cell == True`
IsTrue(c) == c.k \in {"bool", "num"} /\ c.n = 1

\* the lambda of lines 19-21
CompletionStatus(row) ==
    IF ~IsNull(row["Completed At"]) THEN Str("Completed")
    ELSE IF "Overdue" \in DOMAIN row /\ IsTrue(row["Overdue"]) THEN Str("Overdue")
    ELSE Str("In Progress")

RECURSIVE ParseDates(_, _)
ParseDates(d, cs) ==
    IF cs = <<>> THEN d
    ELSE ParseDates(IF HasCol(d, Head(cs))
                    THEN SetCol(d, Head(cs), [i \in Index(d) |-> to_datetime(d.rows[i][Head(cs)])])
                    ELSE d,
                    Tail(cs))

MutNumericNoFill(d, c) ==
    IF ~HasCol(d, c) THEN SetCol(d, c, [i \in Index(d) |-> Num(0)])
    ELSE SetCol(d, c, [i \in Index(d) |-> to_numeric(d.rows[i][c])])

\* lines 25-28 for one column
EnsureNumeric(d, c) ==
    IF ~HasCol(d, c) THEN SetCol(d, c, [i \in Index(d) |-> Num(0)])
    ELSE SetCol(d, c, [i \in Index(d) |-> fillna(to_numeric(d.rows[i][c]), Num(0))])

RECURSIVE EnsureNumerics(_, _)
EnsureNumerics(d, cs) ==
    IF cs = <<>> THEN d ELSE EnsureNumerics(EnsureNumeric(d, Head(cs)), Tail(cs))

\* The function's result: the batch, or the exception it raised.
load_and_process_data(file) ==
    LET d0 == read_csv(file)
        d1 == ParseDates(d0, DATE_COLUMNS)
        d2 == SetCol(d1, "Duration",
                     [i \in Index(d1) |-> Days(d1.rows[i]["Due Date"], d1.rows[i]["Start Date"])])
        d3 == SetCol(d2, "Completion_Status", [i \in Index(d2) |-> CompletionStatus(d2.rows[i])])
        d4 == EnsureNumerics(d3, NUMERIC_COLUMNS)
    IN  IF ~HasCol(d1, "Due Date") THEN [df |-> NoDF, err |-> KeyError("Due Date")]
        ELSE IF ~HasCol(d1, "Start Date") THEN [df |-> NoDF, err |-> KeyError("Start Date")]
        \* df.apply(axis=1) of a batch without rows yields an empty frame, which
        \* cannot be assigned to the single column
        ELSE IF Len(d2.rows) = 0 THEN [df |-> NoDF, err |-> Raise("ValueError", "Completion_Status")]
        ELSE IF ~HasCol(d2, "Completed At") THEN [df |-> NoDF, err |-> KeyError("Completed At")]
        ELSE [df |-> d4, err |-> NoErr]

(***************************************************************************)
(* Filtering (lines 34-38 and 175-179) and the aggregations.               *)
(***************************************************************************)
\* Series.dropna().unique()
Options(d, c) == {x \in Range(Column(d, c)) : ~IsNull(x)}

MutIsinOrNull(c, selected) == IsNull(c) \/ c \in selected

\* Series.isin(selected) on one value
isin(c, selected) == c \in selected

Passes(row, sa, sp, ss) ==
    /\ isin(row["Assignee"], sa)
    /\ isin(row["Projects"], sp)
    /\ isin(row["Deliverable Status"], ss)

ApplyFilter(d, sa, sp, ss) == Select(d, [i \in Index(d) |-> Passes(d.rows[i], sa, sp, ss)])

FILTER_COLUMNS == <<"Assignee", "Projects", "Deliverable Status">>
GANTT_COLUMNS == <<"Start Date", "Due Date", "Name", "Assignee", "Task ID", "Projects",
                   "Estimated Hours", "Deliverable Status">>

\* the first column of cs that d lacks, "" when it has them all
RECURSIVE FirstMissing(_, _)
FirstMissing(d, cs) ==
    IF cs = <<>> THEN ""
    ELSE IF ~HasCol(d, Head(cs)) THEN Head(cs)
    ELSE FirstMissing(d, Tail(cs))

\* the distinct non-null values of a column in order of first appearance
RECURSIVE Uniques(_, _)
Uniques(col, seen) ==
    IF col = <<>> THEN <<>>
    ELSE IF IsNull(Head(col)) \/ Head(col) \in seen THEN Uniques(Tail(col), seen)
    ELSE <<Head(col)>> \o Uniques(Tail(col), seen \cup {Head(col)})

\* how text sorts, for the strings the model's batches hold
Alphabet == <<"Alice", "Apollo", "Billable", "Bob", "Dev", "Non-Billable", "Open", "Zeus">>
Rank(c) == IF c.k = "str" /\ c.s \in Range(Alphabet)
           THEN (CHOOSE i \in 1..Len(Alphabet) : Alphabet[i] = c.s) ELSE c.n

\* Sorting.  An entry to sort is <<num, den, item>> with den > 0 and sorts by
\* the fraction num/den, ascending; entries that compare equal keep their
\* order (the sort is stable on the short arrays of the model).
Before(a, b) == a[1] * b[2] < b[1] * a[2]

RECURSIVE Insert(_, _)
Insert(q, x) ==
    IF q = <<>> THEN <<x>>
    ELSE IF Before(x, Head(q)) THEN <<x>> \o q
    ELSE <<Head(q)>> \o Insert(Tail(q), x)

RECURSIVE Sorted(_)
Sorted(q) ==
    IF q = <<>> THEN <<>>
    ELSE Insert(Sorted(SubSeq(q, 1, Len(q) - 1)), q[Len(q)])

Items(q) == [i \in 1..Len(q) |-> q[i][3]]

\* groupby(c): the non-null keys in ascending order (dropna is the default)
GroupKeys(d, c) ==
    LET us == Uniques(Column(d, c), {})
    IN  Items(Sorted([i \in 1..Len(us) |-> <<Rank(us[i]), 1, us[i]>>]))

RowsOf(d, c, key) == SelectSeq(d.rows, LAMBDA r: r[c] = key)

SumOf(rows, f) == SumSeq([i \in 1..Len(rows) |-> rows[i][f].n])

\* groupby(c)[f].sum(): <<key, sum>> per group, keys ascending
GroupSum(d, c, f) ==
    LET ks == GroupKeys(d, c)
    IN  [i \in 1..Len(ks) |-> <<ks[i], SumOf(RowsOf(d, c, ks[i]), f)>>]

\* groupby(c)[f].mean(): <<key, sum, count>> per group, the mean being sum/count
GroupMean(d, c, f) ==
    LET ks == GroupKeys(d, c)
    IN  [i \in 1..Len(ks) |->
            <<ks[i], SumOf(RowsOf(d, c, ks[i]), f), Len(RowsOf(d, c, ks[i]))>>]

\* Series.value_counts(): <<value, count>> per non-null value (dropna is the
\* default), most frequent first
ValueCounts(d, c) ==
    LET ks == Uniques(Column(d, c), {})
        n(i) == Len(RowsOf(d, c, ks[i]))
    IN  Items(Sorted([i \in 1..Len(ks) |-> <<0 - n(i), 1, <<ks[i], n(i)>>>>]))

\* .sort_values(ascending=False) of group sums
SortDescending(q) == Items(Sorted([i \in 1..Len(q) |-> <<0 - q[i][2], 1, q[i]>>]))

\* .sort_values(ascending=False) of group means sum/count
SortMeansDescending(q) == Items(Sorted([i \in 1..Len(q) |-> <<0 - q[i][2], q[i][3], q[i]>>]))

\* Series.dt.to_period('W').astype(str) on one value: the Monday-to-Sunday week
\* of the instant, as text; NaT becomes the text "NaT"
WeekOf(c) ==
    IF IsNull(c) THEN Str("NaT")
    ELSE [k |-> "str",
          n |-> ((c.n \div HalfDaysPerDay) + EpochWeekday) \div DaysPerWeek,
          s |-> "week"]

\* line 94: the statement that writes into the batch it was given
AddCompletionWeek(d) ==
    SetCol(d, "Completion_Week", [i \in Index(d) |-> WeekOf(d.rows[i]["Completed At"])])

\* line 95: completed tasks per completion week, weeks ascending
CompletionTrend(d) ==
    LET done == Select(d, [i \in Index(d) |-> d.rows[i]["Completion_Status"] = Str("Completed")])
        ks == GroupKeys(done, "Completion_Week")
    IN  [i \in 1..Len(ks) |-> <<ks[i], Len(RowsOf(done, "Completion_Week", ks[i]))>>]

\* len(d[d[c] == v])
CountEqual(d, c, v) == Len(Select(d, [i \in Index(d) |-> d.rows[i][c] = v]).rows)


\* Series.min() / Series.max() of a datetime column: NaT when no value is set
MinDate(d, c) ==
    LET vs == {x \in Range(Column(d, c)) : ~IsNull(x)}
    IN  IF vs = {} THEN Null ELSE CHOOSE x \in vs : \A y \in vs : x.n <= y.n
MaxDate(d, c) ==
    LET vs == {x \in Range(Column(d, c)) : ~IsNull(x)}
    IN  IF vs = {} THEN Null ELSE CHOOSE x \in vs : \A y \in vs : x.n >= y.n

(***************************************************************************)
(* The memoization of @st.cache_data: a call is keyed by the function and  *)
(* the content of its arguments; a hit returns the stored value without    *)
(* running the body.                                                       *)
(***************************************************************************)
NoSel == <<{}, {}, {}>>
Key(fn, d, sel) == [fn |-> fn, df |-> d, sel |-> sel]
Hit(fn, d, sel) == Key(fn, d, sel) \in cache
Memoize(fn, d, sel) == cache' = cache \cup {Key(fn, d, sel)}

(***************************************************************************)
(* main(), one action per step of a script run.                            *)
(***************************************************************************)
NoOverview == [total |-> 0, completed |-> 0, overdue |-> 0, estimated |-> 0, actual |-> 0]
NoSummary == [total |-> 0, start |-> Null, end |-> Null, assignees |-> 0, estimated |-> 0,
              overdue |-> 0, completed |-> 0, pct_num |-> 0, pct_den |-> 1]

\* what a script run starts from: every local of main() unset
FreshRun ==
    /\ pc' = "load"
    /\ err' = NoErr
    /\ df' = NoDF
    /\ gantt_df' = NoDF
    /\ filtered_df' = NoDF
    /\ filter_out' = NoDF
    /\ overview' = NoOverview
    /\ status_counts' = <<>>
    /\ workload' = <<>>
    /\ completion_trend' = <<>>
    /\ delay_by_project' = <<>>
    /\ billable_hours' = <<>>
    /\ job_category_counts' = <<>>
    /\ summary' = NoSummary
    /\ custom_columns' = <<>>

\* an exception ends the script run
Fail(e) == /\ pc' = "error"
           /\ err' = [e EXCEPT !.at = pc]

\* line 143
Load ==
    /\ pc = "load"
    /\ LET r == load_and_process_data(uploaded_file)
       IN  IF r.err # NoErr
           THEN /\ Fail(r.err)
                /\ UNCHANGED <<df, cache>>
           ELSE /\ df' = r.df
                /\ Memoize("load_and_process_data", uploaded_file, NoSel)
                /\ pc' = "overview"
                /\ err' = NoErr
    /\ UNCHANGED <<uploaded_file, selected_assignees, selected_projects, selected_statuses,
                   gantt_df, filtered_df, filter_out, overview, status_counts, workload,
                   completion_trend, delay_by_project, billable_hours, job_category_counts,
                   summary, custom_columns, rendered, reruns>>

\* lines 146-152
Overview ==
    /\ pc = "overview"
    /\ overview' = [total |-> Len(df.rows),
                    completed |-> CountEqual(df, "Completion_Status", Str("Completed")),
                    overdue |-> CountEqual(df, "Completion_Status", Str("Overdue")),
                    estimated |-> SumOf(df.rows, "Estimated Hours"),
                    actual |-> SumOf(df.rows, "Harvest Hours")]
    /\ pc' = "widgets"
    /\ UNCHANGED <<uploaded_file, err, df, selected_assignees, selected_projects,
                   selected_statuses, gantt_df, filtered_df, filter_out, status_counts,
                   workload, completion_trend, delay_by_project, billable_hours,
                   job_category_counts, summary, custom_columns, rendered, cache, reruns>>

\* lines 158-167: the three multiselects; a widget drawn for the first time
\* takes its default (every option), afterwards it keeps the session's value
FilterWidgets ==
    /\ pc = "widgets"
    /\ LET missing == FirstMissing(df, FILTER_COLUMNS)
       IN  IF missing # ""
           THEN /\ Fail(KeyError(missing))
                /\ UNCHANGED <<selected_assignees, selected_projects, selected_statuses, rendered>>
           ELSE /\ selected_assignees' = IF rendered THEN selected_assignees
                                         ELSE Options(df, "Assignee")
                /\ selected_projects' = IF rendered THEN selected_projects
                                        ELSE Options(df, "Projects")
                /\ selected_statuses' = IF rendered THEN selected_statuses
                                        ELSE Options(df, "Deliverable Status")
                /\ rendered' = TRUE
                /\ pc' = "gantt"
                /\ err' = NoErr
    /\ UNCHANGED <<uploaded_file, df, gantt_df, filtered_df, filter_out, overview,
                   status_counts, workload, completion_trend, delay_by_project,
                   billable_hours, job_category_counts, summary, custom_columns, cache, reruns>>

\* line 171, create_interactive_gantt (lines 33-73)
Gantt ==
    /\ pc = "gantt"
    /\ LET sel == <<selected_assignees, selected_projects, selected_statuses>>
           missing == FirstMissing(df, GANTT_COLUMNS)
       IN  IF missing # ""
           THEN /\ Fail(Raise("ValueError", missing))
                /\ UNCHANGED <<gantt_df, cache>>
           ELSE /\ gantt_df' = ApplyFilter(df, selected_assignees, selected_projects,
                                           selected_statuses)
                /\ Memoize("create_interactive_gantt", df, sel)
                /\ pc' = "filter"
                /\ err' = NoErr
    /\ UNCHANGED <<uploaded_file, df, selected_assignees, selected_projects,
                   selected_statuses, filtered_df, filter_out, overview, status_counts,
                   workload, completion_trend, delay_by_project, billable_hours,
                   job_category_counts, summary, custom_columns, rendered, reruns>>

\* lines 175-179
Filter ==
    /\ pc = "filter"
    /\ filtered_df' = ApplyFilter(df, selected_assignees, selected_projects, selected_statuses)
    /\ filter_out' = filtered_df'
    /\ pc' = "status"
    /\ UNCHANGED <<uploaded_file, err, df, selected_assignees, selected_projects,
                   selected_statuses, gantt_df, overview, status_counts, workload,
                   completion_trend, delay_by_project, billable_hours, job_category_counts,
                   summary, custom_columns, rendered, cache, reruns>>

\* line 185, create_task_status_distribution (lines 76-82)
StatusDistribution ==
    /\ pc = "status"
    /\ status_counts' = ValueCounts(filtered_df, "Completion_Status")
    /\ Memoize("create_task_status_distribution", filtered_df, NoSel)
    /\ pc' = "workload"
    /\ UNCHANGED <<uploaded_file, err, df, selected_assignees, selected_projects,
                   selected_statuses, gantt_df, filtered_df, filter_out, overview, workload,
                   completion_trend, delay_by_project, billable_hours, job_category_counts,
                   summary, custom_columns, rendered, reruns>>

\* line 190, create_workload_by_assignee (lines 85-90)
Workload ==
    /\ pc = "workload"
    /\ workload' = SortDescending(GroupSum(filtered_df, "Assignee", "Estimated Hours"))
    /\ Memoize("create_workload_by_assignee", filtered_df, NoSel)
    /\ pc' = "trend"
    /\ UNCHANGED <<uploaded_file, err, df, selected_assignees, selected_projects,
                   selected_statuses, gantt_df, filtered_df, filter_out, overview,
                   status_counts, completion_trend, delay_by_project, billable_hours,
                   job_category_counts, summary, custom_columns, rendered, reruns>>

\* line 197, create_task_completion_trend (lines 93-98).  The function gets
\* main's filtered_df itself: when its body runs (a cache miss), line 94 adds
\* the column to that batch; on a hit the body does not run.
TaskCompletionTrend ==
    /\ pc = "trend"
    /\ filtered_df' = IF Hit("create_task_completion_trend", filtered_df, NoSel)
                      THEN filtered_df
                      ELSE AddCompletionWeek(filtered_df)
    /\ completion_trend' = CompletionTrend(AddCompletionWeek(filtered_df))
    /\ Memoize("create_task_completion_trend", filtered_df, NoSel)
    /\ pc' = "delay"
    /\ UNCHANGED <<uploaded_file, err, df, selected_assignees, selected_projects,
                   selected_statuses, gantt_df, filter_out, overview, status_counts,
                   workload, delay_by_project, billable_hours, job_category_counts,
                   summary, custom_columns, rendered, reruns>>

\* line 202, create_delay_analysis (lines 101-106)
DelayAnalysis ==
    /\ pc = "delay"
    /\ delay_by_project' = SortMeansDescending(GroupMean(filtered_df, "Projects",
                                                         "Number of Delays"))
    /\ Memoize("create_delay_analysis", filtered_df, NoSel)
    /\ pc' = "hours"
    /\ UNCHANGED <<uploaded_file, err, df, selected_assignees, selected_projects,
                   selected_statuses, gantt_df, filtered_df, filter_out, overview,
                   status_counts, workload, completion_trend, billable_hours,
                   job_category_counts, summary, custom_columns, rendered, reruns>>

\* line 207, create_estimated_vs_actual_hours (lines 109-116): a scatter plot,
\* no aggregate is kept
EstimatedVsActualHours ==
    /\ pc = "hours"
    /\ Memoize("create_estimated_vs_actual_hours", filtered_df, NoSel)
    /\ pc' = "billable"
    /\ UNCHANGED <<uploaded_file, err, df, selected_assignees, selected_projects,
                   selected_statuses, gantt_df, filtered_df, filter_out, overview,
                   status_counts, workload, completion_trend, delay_by_project,
                   billable_hours, job_category_counts, summary, custom_columns,
                   rendered, reruns>>

\* line 212, create_billable_hours_chart (lines 119-125)
BillableHours ==
    /\ pc = "billable"
    /\ IF ~HasCol(filtered_df, "Billable or Non-Billable")
       THEN /\ Fail(KeyError("Billable or Non-Billable"))
            /\ UNCHANGED <<billable_hours, cache>>
       ELSE /\ billable_hours' = GroupSum(filtered_df, "Billable or Non-Billable",
                                          "Harvest Hours")
            /\ Memoize("create_billable_hours_chart", filtered_df, NoSel)
            /\ pc' = "jobs"
            /\ err' = NoErr
    /\ UNCHANGED <<uploaded_file, df, selected_assignees, selected_projects,
                   selected_statuses, gantt_df, filtered_df, filter_out, overview,
                   status_counts, workload, completion_trend, delay_by_project,
                   job_category_counts, summary, custom_columns, rendered, reruns>>

\* line 217, create_job_category_distribution (lines 128-133)
JobCategoryDistribution ==
    /\ pc = "jobs"
    /\ IF ~HasCol(filtered_df, "Job Category")
       THEN /\ Fail(KeyError("Job Category"))
            /\ UNCHANGED <<job_category_counts, cache>>
       ELSE /\ job_category_counts' = ValueCounts(filtered_df, "Job Category")
            /\ Memoize("create_job_category_distribution", filtered_df, NoSel)
            /\ pc' = "summary"
            /\ err' = NoErr
    /\ UNCHANGED <<uploaded_file, df, selected_assignees, selected_projects,
                   selected_statuses, gantt_df, filtered_df, filter_out, overview,
                   status_counts, workload, completion_trend, delay_by_project,
                   billable_hours, summary, custom_columns, rendered, reruns>>

\* lines 221-234: the Project Summary.  The percentage of completed tasks is
\* len(completed_tasks) / len(filtered_df) * 100, kept here as the fraction
\* pct_num / pct_den.
ProjectSummary ==
    /\ pc = "summary"
    /\ LET n == Len(filtered_df.rows)
           completed == Len(Select(filtered_df, [i \in Index(filtered_df) |->
                                       ~IsNull(filtered_df.rows[i]["Completed At"])]).rows)
       IN  IF ~HasCol(filtered_df, "Overdue")
           THEN /\ Fail(KeyError("Overdue"))
                /\ UNCHANGED summary
           ELSE IF n = 0
           THEN /\ Fail(Raise("ZeroDivisionError", "division by zero"))
                /\ UNCHANGED summary
           ELSE /\ summary' =
                      [total |-> n,
                       start |-> MinDate(filtered_df, "Start Date"),
                       end |-> MaxDate(filtered_df, "Due Date"),
                       assignees |-> Cardinality(Options(filtered_df, "Assignee")),
                       estimated |-> SumOf(filtered_df.rows, "Estimated Hours"),
                       overdue |-> Len(Select(filtered_df, [i \in Index(filtered_df) |->
                                           IsTrue(filtered_df.rows[i]["Overdue"])]).rows),
                       completed |-> completed,
                       pct_num |-> completed * 100,
                       pct_den |-> n]
                /\ pc' = "custom"
                /\ err' = NoErr
    /\ UNCHANGED <<uploaded_file, df, selected_assignees, selected_projects,
                   selected_statuses, gantt_df, filtered_df, filter_out, overview,
                   status_counts, workload, completion_trend, delay_by_project,
                   billable_hours, job_category_counts, custom_columns, rendered,
                   cache, reruns>>

\* lines 237-254: the axis boxes offer filtered_df.columns
CustomAnalysis ==
    /\ pc = "custom"
    /\ custom_columns' = filtered_df.cols
    /\ pc' = "done"
    /\ UNCHANGED <<uploaded_file, err, df, selected_assignees, selected_projects,
                   selected_statuses, gantt_df, filtered_df, filter_out, overview,
                   status_counts, workload, completion_trend, delay_by_project,
                   billable_hours, job_category_counts, summary, rendered, cache, reruns>>

(***************************************************************************)
(* Widget interactions: each one reruns the script from the top, with the  *)
(* session's widget values and the memoization cache kept.                 *)
(***************************************************************************)
Toggle(S, x) == IF x \in S THEN S \ {x} ELSE S \cup {x}

\* one click in a multiselect of lines 159-167 adds or removes one option
ToggleOption ==
    /\ pc \in {"done", "error"}
    /\ rendered
    /\ reruns < MaxReruns
    /\ \/ \E x \in Options(df, "Assignee") :
            /\ selected_assignees' = Toggle(selected_assignees, x)
            /\ UNCHANGED <<selected_projects, selected_statuses>>
       \/ \E x \in Options(df, "Projects") :
            /\ selected_projects' = Toggle(selected_projects, x)
            /\ UNCHANGED <<selected_assignees, selected_statuses>>
       \/ \E x \in Options(df, "Deliverable Status") :
            /\ selected_statuses' = Toggle(selected_statuses, x)
            /\ UNCHANGED <<selected_assignees, selected_projects>>
    /\ reruns' = reruns + 1
    /\ FreshRun
    /\ UNCHANGED <<uploaded_file, rendered, cache>>

\* a change of a Custom Analysis box (lines 238-241) leaves the filters alone
ChangeCustomWidget ==
    /\ pc = "done"
    /\ reruns < MaxReruns
    /\ reruns' = reruns + 1
    /\ FreshRun
    /\ UNCHANGED <<uploaded_file, selected_assignees, selected_projects, selected_statuses,
                   rendered, cache>>

Next ==
    \/ Load
    \/ Overview
    \/ FilterWidgets
    \/ Gantt
    \/ Filter
    \/ StatusDistribution
    \/ Workload
    \/ TaskCompletionTrend
    \/ DelayAnalysis
    \/ EstimatedVsActualHours
    \/ BillableHours
    \/ JobCategoryDistribution
    \/ ProjectSummary
    \/ CustomAnalysis
    \/ ToggleOption
    \/ ChangeCustomWidget

(***************************************************************************)
(* The uploaded files.  A file is a header and at most MaxRows records;    *)
(* each family varies the columns one part of the program reads and keeps  *)
(* the other columns at a fixed value.                                     *)
(***************************************************************************)
FullHeader == <<"Task ID", "Name", "Assignee", "Projects", "Deliverable Status",
                "Start Date", "Due Date", "Completed At", "Overdue", "Estimated Hours",
                "Total Hours Estimate", "Number of Delays", "Harvest Hours",
                "Billable or Non-Billable", "Job Category">>

DefaultCell(c) ==
    CASE c = "Task ID" -> Str("T1")
      [] c = "Name" -> Str("Task")
      [] c = "Assignee" -> Str("Alice")
      [] c = "Projects" -> Str("Apollo")
      [] c = "Deliverable Status" -> Str("Open")
      [] c = "Start Date" -> DateTxt(2)
      [] c = "Due Date" -> DateTxt(4)
      [] c = "Completed At" -> Null
      [] c = "Overdue" -> BoolTxt(FALSE)
      [] c = "Billable or Non-Billable" -> Str("Billable")
      [] c = "Job Category" -> Str("Dev")
      [] OTHER -> NumTxt(1)

\* a record over header h: the fields `over` gives, the fixed value elsewhere
Record(h, over) ==
    [c \in Range(h) |-> IF c \in DOMAIN over THEN over[c] ELSE DefaultCell(c)]

\* the files with a header of Headers and at most max records drawn from Overs
Files(Headers, Overs, max) ==
    UNION {UNION {{[cols |-> h, rows |-> [i \in 1..n |-> Record(h, o[i])]]
                      : o \in [1..n -> Overs]}
                  : n \in 0..max}
           : h \in Headers}

RECURSIVE WithoutAll(_, _)
WithoutAll(h, cs) == IF cs = <<>> THEN h ELSE WithoutAll(Without(h, Head(cs)), Tail(cs))

\* Completed At and Overdue present, absent or empty
StatusFiles(max) ==
    Files({FullHeader, Without(FullHeader, "Completed At"), Without(FullHeader, "Overdue"),
           WithoutAll(FullHeader, <<"Completed At", "Overdue">>)},
          {("Completed At" :> a) @@ ("Overdue" :> b) :
               a \in {Null, DateTxt(20)}, b \in {Null, BoolTxt(TRUE), BoolTxt(FALSE)}},
          max)

\* Start Date and Due Date set, empty or unparsable; due before and after start
DateFiles(max) ==
    Files({FullHeader},
          {("Start Date" :> a) @@ ("Due Date" :> DateTxt(4)) :
               a \in {Null, Str("tbd"), DateTxt(2), DateTxt(9)}}
          \cup {("Start Date" :> DateTxt(2)) @@ ("Due Date" :> b) :
                   b \in {Null, Str("tbd"), DateTxt(4)}},
          max)

\* any of the required columns missing; a required column left empty
SchemaFiles(max) ==
    Files({WithoutAll(FullHeader, SeqOf(m)) : m \in SUBSET {"Name", "Start Date", "Due Date"}},
          {("Name" :> a) @@ ("Start Date" :> b) :
               a \in {Null, Str("Task")}, b \in {Null, DateTxt(2)}},
          max)

\* numeric columns present or absent, their fields numbers, empty or text
NumericFiles(max) ==
    Files({FullHeader, Without(FullHeader, "Harvest Hours"),
           WithoutAll(FullHeader, NUMERIC_COLUMNS)},
          {("Estimated Hours" :> a) : a \in {Null, Str("n/a"), NumTxt(3)}},
          max)

\* the filtered fields set or empty
FilterFiles(max) ==
    Files({FullHeader},
          {("Assignee" :> a) @@ ("Projects" :> b) :
               a \in {Null, Str("Alice"), Str("Bob")}, b \in {Null, Str("Apollo")}},
          max)

\* the grouping fields of the aggregations set or empty
AggregateFiles(max) ==
    Files({FullHeader},
          {("Assignee" :> a) @@ ("Billable or Non-Billable" :> b) @@ ("Harvest Hours" :> c)
             @@ ("Job Category" :> d) :
               a \in {Str("Alice"), Str("Bob")},
               b \in {Null, Str("Billable"), Str("Non-Billable")},
               c \in {NumTxt(1), NumTxt(2)},
               d \in {Null, Str("Dev")}},
          max)

\* the session before the first script run
Start ==
    /\ pc = "load"
    /\ err = NoErr
    /\ df = NoDF
    /\ selected_assignees = {}
    /\ selected_projects = {}
    /\ selected_statuses = {}
    /\ gantt_df = NoDF
    /\ filtered_df = NoDF
    /\ filter_out = NoDF
    /\ overview = NoOverview
    /\ status_counts = <<>>
    /\ workload = <<>>
    /\ completion_trend = <<>>
    /\ delay_by_project = <<>>
    /\ billable_hours = <<>>
    /\ job_category_counts = <<>>
    /\ summary = NoSummary
    /\ custom_columns = <<>>
    /\ rendered = FALSE
    /\ cache = {}
    /\ reruns = 0

InitStatus == uploaded_file \in StatusFiles(MaxRows) /\ Start
InitDates == uploaded_file \in DateFiles(MaxRows) /\ Start
InitSchema == uploaded_file \in SchemaFiles(MaxRows) /\ Start
InitNumeric == uploaded_file \in NumericFiles(MaxRows) /\ Start
InitFilter == uploaded_file \in FilterFiles(MaxRows) /\ Start
InitAggregate == uploaded_file \in AggregateFiles(MaxRows) /\ Start
Init == uploaded_file \in StatusFiles(MaxRows) \cup SchemaFiles(MaxRows) \cup NumericFiles(MaxRows) /\ Start

Spec == Init /\ [][Next]_vars
SpecStatus == InitStatus /\ [][Next]_vars
SpecDates == InitDates /\ [][Next]_vars
SpecSchema == InitSchema /\ [][Next]_vars
SpecNumeric == InitNumeric /\ [][Next]_vars
SpecFilter == InitFilter /\ [][Next]_vars
SpecAggregate == InitAggregate /\ [][Next]_vars

(***************************************************************************)
(* Properties.                                                             *)
(***************************************************************************)
Steps == <<"load", "overview", "widgets", "gantt", "filter", "status", "workload", "trend",
           "delay", "hours", "billable", "jobs", "summary", "custom", "done">>
Pos(p) == CHOOSE i \in 1..Len(Steps) : Steps[i] = p
\* the step the run is at: the one that raised, when the run has failed
At == IF pc = "error" THEN err.at ELSE pc
\* the run has completed step p
Past(p) == Pos(At) > Pos(p)

Total(q) == SumSeq([i \in 1..Len(q) |-> q[i][2]])
MissingRequired == {"Name", "Start Date", "Due Date"} \ Range(uploaded_file.cols)
Matches(r) == /\ r["Assignee"] \in selected_assignees
              /\ r["Projects"] \in selected_projects
              /\ r["Deliverable Status"] \in selected_statuses

C1_StatusOfField(r) ==
    IF "Completed At" \in DOMAIN r /\ ~IsNull(r["Completed At"]) THEN Str("Completed")
    ELSE IF "Overdue" \in DOMAIN r /\ r["Overdue"] = BoolTxt(TRUE) THEN Str("Overdue")
    ELSE Str("In Progress")
\* C1: for a batch that has the three required columns, load_and_process_data
\* gives every record a Completion_Status: Completed when Completed At is set,
\* otherwise Overdue when Overdue is true, otherwise In Progress, whether the
\* optional columns Completed At and Overdue are present, absent or empty.
C1_StatusAlwaysAssigned ==
    (pc # "load" /\ MissingRequired = {} /\ uploaded_file.rows # <<>>) =>
        /\ Len(df.rows) = Len(uploaded_file.rows)
        /\ \A i \in 1..Len(df.rows) :
              /\ "Completion_Status" \in DOMAIN df.rows[i]
              /\ df.rows[i]["Completion_Status"] = C1_StatusOfField(uploaded_file.rows[i])

\* C2: every record of the loaded batch has Duration = Due Date - Start Date
\* in whole days when both dates parsed, and a null Duration when either is
\* empty or unparsable; a negative Duration is kept.
C2_DurationIsDayDifference ==
    (Past("load") /\ uploaded_file.rows # <<>>) =>
        /\ Len(df.rows) = Len(uploaded_file.rows)
        /\ \A i \in 1..Len(df.rows) :
              LET start == uploaded_file.rows[i]["Start Date"]
                  due == uploaded_file.rows[i]["Due Date"]
                  d == df.rows[i]["Duration"]
              IN  IF start.k = "datetxt" /\ due.k = "datetxt"
                  THEN /\ d.k = "num"
                       /\ HalfDaysPerDay * d.n <= due.n - start.n
                       /\ due.n - start.n < HalfDaysPerDay * (d.n + 1)
                  ELSE IsNull(d)
C2_Witness ==
    /\ pc = "done"
    /\ \E i \in 1..Len(df.rows) : df.rows[i]["Duration"].k = "num" /\ df.rows[i]["Duration"].n < 0
    /\ \E i \in 1..Len(df.rows) : IsNull(df.rows[i]["Duration"])

\* C3: with the default selection (every value offered) in all three filters,
\* the filtered batch is the derived batch, records with a null Assignee,
\* Projects or Deliverable Status included.
C3_DefaultSelectionIsIdentity ==
    (/\ Past("filter")
     /\ selected_assignees = Options(df, "Assignee")
     /\ selected_projects = Options(df, "Projects")
     /\ selected_statuses = Options(df, "Deliverable Status")) => filter_out = df

C4_Filtered(out) ==
    /\ out.cols = df.cols
    /\ Len(out.rows) <= Len(df.rows)
    /\ \A r \in Range(df.rows) : r \in Range(out.rows) <=> Matches(r)
    /\ \A r \in Range(out.rows) :
          /\ r \in Range(df.rows)
          /\ ~IsNull(r["Assignee"]) /\ ~IsNull(r["Projects"]) /\ ~IsNull(r["Deliverable Status"])
    /\ Len(out.rows) = Cardinality({i \in 1..Len(df.rows) : Matches(df.rows[i])})
\* C4: a record is in the filtered batch exactly when its Assignee, Projects
\* and Deliverable Status are each in the selected values; a record with a null
\* in a filtered field is never in it; the filtered batch is a part of the
\* derived batch (the same holds for the batch the Gantt chart plots).
C4_FilterIsConjunction ==
    /\ Past("gantt") => C4_Filtered(gantt_df)
    /\ Past("filter") => C4_Filtered(filter_out)
C4_Witness ==
    /\ Past("filter")
    /\ selected_assignees = {Str("Alice")}
    /\ \E r \in Range(df.rows) : IsNull(r["Assignee"]) /\ r \notin Range(filter_out.rows)
    /\ filter_out.rows # <<>>

\* C5: when no record passes the filters, the run ends without an error and
\* reports 0 as the percentage of completed tasks.
C5_EmptyFilterIsNoError ==
    (Past("filter") /\ filter_out.rows = <<>>) =>
        /\ pc # "error"
        /\ Past("summary") => summary.pct_num = 0

\* C6: a batch that lacks Name, Start Date or Due Date stops the run in
\* load_and_process_data with a SchemaError that names exactly the missing
\* columns; a batch that has all three, a column being empty or not, loads.
C6_MissingColumnIsSchemaError ==
    pc # "load" =>
        IF MissingRequired # {}
        THEN /\ pc = "error" /\ err.at = "load"
             /\ err.kind = "SchemaError"
             /\ MissingRequired = {err.what}
        ELSE uploaded_file.rows # <<>> => Past("load")

C7_MatchingRows == SelectSeq(df.rows, Matches)
\* C7: the group sums add up to the sum of the field over the records that
\* pass the filters: Estimated Hours by Assignee, Harvest Hours by Billable or
\* Non-Billable, records with a null grouping field included.
C7_GroupSumsAddUp ==
    /\ Past("workload") => Total(workload) = SumOf(C7_MatchingRows, "Estimated Hours")
    /\ Past("billable") => Total(billable_hours) = SumOf(C7_MatchingRows, "Harvest Hours")

\* C8: the chart builders leave the filtered batch as the filter produced it,
\* so the columns Custom Analysis offers are those of the filter's output.
C8_ChartsLeaveBatchUnchanged ==
    /\ Past("filter") => filtered_df = filter_out
    /\ pc = "done" => custom_columns = filter_out.cols

C9_Expected(r, c) ==
    IF c \in DOMAIN r /\ r[c].k = "numtxt" THEN Num(r[c].n) ELSE Num(0)
\* C9: after load_and_process_data each of the four numeric columns exists and
\* holds a number in every record: 0 when the column was absent from the file
\* or the field was empty or unparsable; so it is in every filtered batch.
C9_NumericNeverNull ==
    /\ Past("load") =>
          /\ Range(NUMERIC_COLUMNS) \subseteq Range(df.cols)
          /\ \A i \in 1..Len(df.rows) : \A c \in Range(NUMERIC_COLUMNS) :
                df.rows[i][c] = C9_Expected(uploaded_file.rows[i], c)
    /\ Past("filter") =>
          \A r \in Range(filter_out.rows) \cup Range(filtered_df.rows) :
             \A c \in Range(NUMERIC_COLUMNS) : r[c].k = "num"
C9_Witness ==
    /\ Past("filter")
    /\ filter_out.rows # <<>>
    /\ "Harvest Hours" \notin Range(uploaded_file.cols)
    /\ "Estimated Hours" \in Range(uploaded_file.cols)
    /\ \E i \in 1..Len(df.rows) : /\ uploaded_file.rows[i]["Estimated Hours"] = Str("n/a")
                                  /\ df.rows[i]["Estimated Hours"] = Num(0)
                                  /\ df.rows[i]["Harvest Hours"] = Num(0)
    /\ \E i \in 1..Len(df.rows) : uploaded_file.rows[i]["Estimated Hours"] = Null

\* C10: the value counts of Completion_Status and of Job Category count every
\* record of the batch they are given once, a null value in a bucket of its own.
C10_ValueCountsCoverBatch ==
    /\ Past("status") => Total(status_counts) = Len(filter_out.rows)
    /\ Past("jobs") => Total(job_category_counts) = Len(filter_out.rows)

====
